---- MODULE Spec2Model ----
(***************************************************************************)
(* Model of DAG_model.py (GeneVAE): the augmented-Lagrangian training      *)
(* loop over the autoencoder's layers, and the pure numeric functions      *)
(* (DAG_constraint, LagrangianLoss, the structural transforms, the         *)
(* NB / ZINB log-likelihoods).  Real numbers are exact rationals           *)
(* <<numerator, denominator>>; floating-point rounding is not modelled.    *)
(***************************************************************************)
EXTENDS Integers, Sequences, FiniteSets, TLC

VARIABLES
    pc,         \* position of the script's control thread
    round,      \* completed iterations of the outer loop
    epoch,      \* completed epochs of the fit call in progress
    layers,     \* autoencoder.layers: the weights of every layer
    inputs,     \* inputs of ConstraintLossLayer.call in the current training step
    losses,     \* loss registered by ConstraintLossLayer.add_loss in that step
    output,     \* value returned by ConstraintLossLayer.call in that step
    saved,      \* number of times DAG_AE.h5 was written
    fitCalls,   \* number of autoencoder.fit calls issued
    updates,    \* number of executions of the update step
    raised,     \* whether a fit call raised
    fitLambda,  \* lambda_A when the latest fit call was issued
    fitPenalty, \* penalty_A when the latest fit call was issued
    call        \* the pure function under evaluation, its arguments and results

vars == <<pc, round, epoch, layers, inputs, losses, output, saved,
          fitCalls, updates, raised, fitLambda, fitPenalty, call>>

trainVars == <<pc, round, epoch, layers, inputs, losses, output, saved,
               fitCalls, updates, raised, fitLambda, fitPenalty>>

(***************************************************************************)
(* Bounds of the model                                                     *)
(***************************************************************************)
\* n_nodes of the training run (adata.X.shape[0])
TrainNodes == 2
\* most nonzero entries of the adjacency matrix during the training run
TrainEdges == 2
\* largest matrix dimension given to the pure functions
MaxN == 3
\* most nonzero entries of a matrix given to the pure functions
MaxEdges == 3

(***************************************************************************)
(* Program constants                                                       *)
(***************************************************************************)
\* for i in range(10)
Rounds == 10
\* autoencoder.fit(..., epochs=5, ...)
Epochs == 5

None == "None"

(***************************************************************************)
(* Exact rational arithmetic                                               *)
(***************************************************************************)
Abs(a) == IF a < 0 THEN -a ELSE a

RECURSIVE GCD(_, _)
GCD(a, b) == IF b = 0 THEN a ELSE GCD(b, a % b)

\* a rational in lowest terms with a positive denominator
Rat(n, d) ==
    LET g == GCD(Abs(n), Abs(d))
        s == IF d < 0 THEN -1 ELSE 1
    IN  <<(s * n) \div g, (s * d) \div g>>

RInt(a) == <<a, 1>>
\* sums over the least common denominator, to keep the integers small
RAdd(a, b) ==
    LET g == GCD(a[2], b[2])
    IN  Rat(a[1] * (b[2] \div g) + b[1] * (a[2] \div g), (a[2] \div g) * b[2])
RNeg(a) == <<-a[1], a[2]>>
RSub(a, b) == RAdd(a, RNeg(b))
RMul(a, b) == Rat(a[1] * b[1], a[2] * b[2])
RZero == RInt(0)
RHalf == Rat(1, 2)

(***************************************************************************)
(* Matrices: a sequence of rows; entries are integers or rationals         *)
(***************************************************************************)
RECURSIVE SumTo(_, _)
SumTo(f, k) == IF k = 0 THEN 0 ELSE f[k] + SumTo(f, k - 1)

\* tf.eye(n)
eye(n) == [i \in 1..n |-> [j \in 1..n |-> IF i = j THEN 1 ELSE 0]]

\* K.transpose
transpose(M) == [i \in 1..Len(M[1]) |-> [j \in 1..Len(M) |-> M[j][i]]]

\* the sequence <<f[1], ..., f[k]>>, every entry computed once
RECURSIVE Tabulate(_, _)
Tabulate(f, k) == IF k = 0 THEN << >> ELSE Append(Tabulate(f, k - 1), f[k])

\* A real matrix is an integer matrix over one positive denominator:
\* [num |-> M, den |-> d] is the matrix of the M[i][j] / d.
Scaled(M, d) == [num |-> M, den |-> d]

\* the product of integer matrices
IntMatMul(X, Y) ==
    Tabulate([i \in 1..Len(X) |-> Tabulate([j \in 1..Len(Y[1]) |->
        SumTo([k \in 1..Len(Y) |-> X[i][k] * Y[k][j]], Len(Y))], Len(Y[1]))], Len(X))

\* tf.matmul
matmul(X, Y) == Scaled(IntMatMul(X.num, Y.num), X.den * Y.den)

\* tf.linalg.trace
trace(X) == Rat(SumTo([k \in 1..Len(X.num) |-> X.num[k][k]], Len(X.num)), X.den)

\* the entries of a real matrix, each a rational in lowest terms
Values(X) ==
    [i \in 1..Len(X.num) |-> [j \in 1..Len(X.num[i]) |-> Rat(X.num[i][j], X.den)]]

Zeros(n) == [i \in 1..n |-> [j \in 1..n |-> 0]]

Positions(n) == (1..n) \X (1..n)

\* the matrix entries tried: an absent edge, and an edge of either sign
Entries == {-1, 0, 1}

\* the n x n matrices with entries in Entries and at most e nonzero entries
SparseMatrices(n, e) ==
    { [i \in 1..n |-> [j \in 1..n |-> IF <<i, j>> \in DOMAIN f THEN f[<<i, j>>] ELSE 0]] :
        f \in UNION { [S -> Entries \ {0}] :
                        S \in { P \in SUBSET Positions(n) : Cardinality(P) <= e } } }

NonZeroCount(M) == Cardinality({ p \in Positions(Len(M)) : M[p[1]][p[2]] # 0 })

\* the nodes reached from the set S in at most k further steps along nonzero entries
RECURSIVE Reach(_, _, _)
Reach(A, S, k) ==
    LET T == S \cup { j \in 1..Len(A) : \E i \in S : A[i][j] # 0 }
    IN  IF k = 0 THEN S ELSE Reach(A, T, k - 1)

\* some node reaches itself along one or more edges (a self-loop is a cycle)
HasCycle(A) ==
    \E i \in 1..Len(A) :
        i \in Reach(A, { j \in 1..Len(A) : A[i][j] # 0 }, Len(A)) 

(***************************************************************************)
(* Custom losses                                                           *)
(***************************************************************************)
\* the loop of DAG_constraint: k squarings of x
RECURSIVE Squarings(_, _)
Squarings(x, k) == IF k <= 0 THEN x ELSE Squarings(matmul(x, x), k - 1)

\* DAG_constraint with x = ident + alpha * A, the elementwise square left out
DAG_constraint_no_square(A, alpha) ==
    LET n_nodes == Len(A)
        ident   == eye(n_nodes)
        x0      == Scaled(Tabulate([i \in 1..n_nodes |-> Tabulate([j \in 1..n_nodes |->
                              alpha[2] * ident[i][j] + alpha[1] * (A[i][j])],
                              n_nodes)], n_nodes),
                          alpha[2])
        x       == Squarings(x0, n_nodes - 1)
    IN  RSub(trace(x), RInt(n_nodes))

\* def DAG_constraint(A, alpha)
DAG_constraint(A, alpha) ==
    LET n_nodes == Len(A)
        ident   == eye(n_nodes)
        x0      == Scaled(Tabulate([i \in 1..n_nodes |-> Tabulate([j \in 1..n_nodes |->
                              alpha[2] * ident[i][j] + alpha[1] * (A[i][j] * A[i][j])],
                              n_nodes)], n_nodes),
                          alpha[2])
        x       == Squarings(x0, n_nodes - 1)
    IN  RSub(trace(x), RInt(n_nodes))

\* LagrangianLoss with the factor 0.5 of the quadratic term left out
LagrangianLoss_no_half(lambda_A_, penalty_A_, A, alpha) ==
    LET n_nodes == Len(A)
        h_A     == DAG_constraint(A, alpha)
        out     == RAdd(RMul(RInt(lambda_A_), h_A),
                        RMul(RInt(penalty_A_), RMul(h_A, h_A)))
    IN  [k \in 1..n_nodes |-> out]

\* def LagrangianLoss(lambda_A, penalty_A, A, alpha)
LagrangianLoss(lambda_A_, penalty_A_, A, alpha) ==
    LET n_nodes == Len(A)
        h_A     == DAG_constraint(A, alpha)
        out     == RAdd(RMul(RInt(lambda_A_), h_A),
                        RMul(RMul(RHalf, RInt(penalty_A_)), RMul(h_A, h_A)))
    IN  [k \in 1..n_nodes |-> out]

(***************************************************************************)
(* Custom layers and the autoencoder                                       *)
(***************************************************************************)
Weight(name, trainable, value) ==
    [name |-> name, trainable |-> trainable, value |-> value]

\* ConstraintLossLayer.build with the two weights left trainable
ConstraintLossLayer_build_trainable ==
    << Weight("lambda_A", TRUE, 0), Weight("penalty_A", TRUE, 1) >>

\* ConstraintLossLayer.build
ConstraintLossLayer_build ==
    << Weight("lambda_A", FALSE, 0), Weight("penalty_A", FALSE, 1) >>

\* TransMultA.build
TransMultA_build(n_nodes) == Weight("adj", TRUE, Zeros(n_nodes))

\* ConstraintLossLayer(LagrangianLoss, (1/n_nodes))
self_alpha == Rat(1, TrainNodes)

\* the weights of the Dense layers of a model, and the decoder's outputs, as
\* one value that is either of two
DenseVals == {0, 1}

\* autoencoder.layers, inputs first and the output layer last
LayerNames ==
    << "count_input", "encoder", "kl_divergence_layer", "decoder",
       "reconstruction_loss_layer", "constraint_loss_layer" >>

\* the weights of the layers of Model(AE_inputs, AE_outputs) once built
autoencoder(encDense, decDense) ==
    << << >>,
       << Weight("dense", TRUE, encDense), TransMultA_build(TrainNodes) >>,
       << >>,
       << Weight("dense", TRUE, decDense) >>,
       << >>,
       ConstraintLossLayer_build >>

LayerIndex(name) == CHOOSE l \in 1..Len(LayerNames) : LayerNames[l] = name

WeightIndex(layer, name) == CHOOSE w \in 1..Len(layer) : layer[w].name = name

WeightOf(lname, wname) ==
    LET layer == layers[LayerIndex(lname)]
    IN  layer[WeightIndex(layer, wname)].value

lambda_A  == WeightOf("constraint_loss_layer", "lambda_A")
penalty_A == WeightOf("constraint_loss_layer", "penalty_A")
adj       == WeightOf("encoder", "adj")

\* Model.get_layer(index=idx) with Python's indexing
get_layer(ls, idx) == IF idx < 0 THEN Len(ls) + idx + 1 ELSE idx + 1

\* Layer.get_weights
get_weights(layer) == [w \in 1..Len(layer) |-> layer[w].value]

\* Layer.set_weights
set_weights(layer, y) == [w \in 1..Len(layer) |-> [layer[w] EXCEPT !.value = y[w]]]

\* ConstraintLossLayer.call
ConstraintLossLayer_call(self, ins) ==
    LET A       == ins[1]
        layers_ == ins[2]
        loss    == LagrangianLoss(self[1].value, self[2].value, A, self_alpha)
    IN  [loss |-> loss, ret |-> layers_]

(***************************************************************************)
(* Train model                                                             *)
(***************************************************************************)
\* adjacency matrices one optimizer step away from B: at most one entry moved,
\* between 0 and 1 (the constraint loss sees the entries squared)
AdjSteps(B) ==
    { C \in { [B EXCEPT ![p[1]][p[2]] = v] : p \in Positions(TrainNodes), v \in {0, 1} } :
        NonZeroCount(C) <= TrainEdges }

\* one optimizer step: the trainable weights move, the others are kept
GradientStep(ls, B, e) ==
    [l \in 1..Len(ls) |-> [w \in 1..Len(ls[l]) |->
        IF ~ls[l][w].trainable THEN ls[l][w]
        ELSE IF ls[l][w].name = "adj" THEN [ls[l][w] EXCEPT !.value = B]
        ELSE IF ls[l][w].name = "dense" THEN [ls[l][w] EXCEPT !.value = e]
        ELSE [ls[l][w] EXCEPT !.value = @ + 1]]]

\* a loop that also stops once h(A) has reached zero after the first round
LoopHasNext_converged ==
    /\ round < Rounds
    /\ ~(round > 0 /\ DAG_constraint(adj, self_alpha) = RZero)

\* for i in range(10): the iterator still has a value
LoopHasNext == round < Rounds

NoCall == [fn |-> None]

Init ==
    /\ pc = "loop"
    /\ round = 0
    /\ epoch = 0
    /\ \E e \in DenseVals : layers = autoencoder(e, e)
    /\ inputs = None
    /\ losses = None
    /\ output = None
    /\ saved = 0
    /\ fitCalls = 0
    /\ updates = 0
    /\ raised = FALSE
    /\ fitLambda = None
    /\ fitPenalty = None
    /\ call = NoCall

\* loss = autoencoder.fit(...) is called
FitCall ==
    /\ pc = "loop"
    /\ LoopHasNext
    /\ pc' = "fit_forward"
    /\ epoch' = 0
    /\ fitCalls' = fitCalls + 1
    /\ fitLambda' = lambda_A
    /\ fitPenalty' = penalty_A
    /\ UNCHANGED <<round, layers, inputs, losses, output, saved, updates, raised, call>>

\* the forward pass of one epoch (one batch of the whole data set)
Forward ==
    /\ pc = "fit_forward"
    /\ epoch < Epochs
    /\ \E AE_outputs \in DenseVals :
         LET self == layers[LayerIndex("constraint_loss_layer")]
             r    == ConstraintLossLayer_call(self, <<adj, AE_outputs>>)
         IN  /\ inputs' = <<adj, AE_outputs>>
             /\ losses' = r.loss
             /\ output' = r.ret
    /\ pc' = "fit_backward"
    /\ UNCHANGED <<round, epoch, layers, saved, fitCalls, updates, raised,
                   fitLambda, fitPenalty, call>>

\* the optimizer step that ends the epoch
Backward ==
    /\ pc = "fit_backward"
    /\ \E B \in AdjSteps(adj), e \in DenseVals :
         layers' = GradientStep(layers, B, e)
    /\ epoch' = epoch + 1
    /\ inputs' = None
    /\ losses' = None
    /\ output' = None
    /\ pc' = "fit_forward"
    /\ UNCHANGED <<round, saved, fitCalls, updates, raised, fitLambda, fitPenalty, call>>

\* autoencoder.fit returns after its last epoch
FitReturn ==
    /\ pc = "fit_forward"
    /\ epoch = Epochs
    /\ pc' = "update"
    /\ UNCHANGED <<round, epoch, layers, inputs, losses, output, saved, fitCalls,
                   updates, raised, fitLambda, fitPenalty, call>>

\* a fit call whose exception is caught and ignored by the loop
FitRaise_swallowed ==
    /\ pc \in {"fit_forward", "fit_backward"}
    /\ raised' = TRUE
    /\ pc' = "update"
    /\ UNCHANGED <<round, epoch, layers, inputs, losses, output, saved, fitCalls,
                   updates, fitLambda, fitPenalty, call>>

\* autoencoder.fit raises: nothing catches it and the script ends
FitRaise ==
    /\ pc \in {"fit_forward", "fit_backward"}
    /\ raised' = TRUE
    /\ pc' = "crashed"
    /\ UNCHANGED <<round, epoch, layers, inputs, losses, output, saved, fitCalls,
                   updates, fitLambda, fitPenalty, call>>

\* an update step that multiplies penalty_A by 10 instead of adding 1
Update_penalty_times_10 ==
    /\ pc = "update"
    /\ LET x  == get_layer(layers, -1)
           y  == get_weights(layers[x])
           y0 == [y EXCEPT ![1] = y[1] + 1]
           y1 == [y0 EXCEPT ![2] = y0[2] * 10]
       IN  layers' = [layers EXCEPT ![x] = set_weights(layers[x], y1)]
    /\ round' = round + 1
    /\ updates' = updates + 1
    /\ pc' = "loop"
    /\ UNCHANGED <<epoch, inputs, losses, output, saved, fitCalls, raised,
                   fitLambda, fitPenalty, call>>

\* an update step that takes get_layer(index=1), the encoder, and adds 1 to
\* its two weights (every entry of the adjacency matrix included)
Update_targets_encoder ==
    /\ pc = "update"
    /\ LET x  == get_layer(layers, 1)
           y  == get_weights(layers[x])
           y0 == [y EXCEPT ![1] = y[1] + 1]
           y1 == [y0 EXCEPT ![2] = [i \in 1..Len(y0[2]) |->
                                       [j \in 1..Len(y0[2]) |-> y0[2][i][j] + 1]]]
       IN  layers' = [layers EXCEPT ![x] = set_weights(layers[x], y1)]
    /\ round' = round + 1
    /\ updates' = updates + 1
    /\ pc' = "loop"
    /\ UNCHANGED <<epoch, inputs, losses, output, saved, fitCalls, raised,
                   fitLambda, fitPenalty, call>>

\* Update lambda_A and penalty_A (weights) from ConstraintLossLayer
Update ==
    /\ pc = "update"
    /\ LET x  == get_layer(layers, -1)
           y  == get_weights(layers[x])
           y0 == [y EXCEPT ![1] = y[1] + 1]
           y1 == [y0 EXCEPT ![2] = y0[2] + 1]
       IN  layers' = [layers EXCEPT ![x] = set_weights(layers[x], y1)]
    /\ round' = round + 1
    /\ updates' = updates + 1
    /\ pc' = "loop"
    /\ UNCHANGED <<epoch, inputs, losses, output, saved, fitCalls, raised,
                   fitLambda, fitPenalty, call>>

\* autoencoder.save('DAG_AE.h5')
Save ==
    /\ pc = "loop"
    /\ ~LoopHasNext
    /\ saved' = saved + 1
    /\ pc' = "done"
    /\ UNCHANGED <<round, epoch, layers, inputs, losses, output, fitCalls, updates,
                   raised, fitLambda, fitPenalty, call>>

Next ==
    \/ FitCall
    \/ Forward
    \/ Backward
    \/ FitReturn
    \/ FitRaise
    \/ Update
    \/ Save

Spec == Init /\ [][Next]_vars

InFit == pc \in {"fit_forward", "fit_backward"}

WeightsChange == lambda_A' # lambda_A \/ penalty_A' # penalty_A

\* C1: from lambda_A = 0 and penalty_A = 1, every completed round adds exactly 1
\* to lambda_A and 1 to penalty_A and nothing else changes them: round r starts
\* with (r, r+1), and after k completed rounds the pair is (k, k+1).
C1_Schedule ==
    /\ [](lambda_A = updates /\ penalty_A = updates + 1 /\ updates = round)
    /\ []((InFit \/ pc = "update") =>
            fitLambda = fitCalls - 1 /\ fitPenalty = fitCalls /\ fitCalls = round + 1)
    /\ [][WeightsChange =>
            pc = "update" /\ lambda_A' = lambda_A + 1 /\ penalty_A' = penalty_A + 1]_vars

\* all ten rounds completed
C1_Witness == pc = "done" /\ lambda_A = Rounds /\ penalty_A = Rounds + 1

\* C2: a fit call never changes lambda_A or penalty_A: when fit returns they
\* equal their values at the call, and they are written only by the update
\* step between two fit calls.
C2_FitKeepsWeights ==
    /\ [][InFit => lambda_A' = lambda_A /\ penalty_A' = penalty_A]_vars
    /\ [](pc = "update" => lambda_A = fitLambda /\ penalty_A = fitPenalty)
    /\ [][WeightsChange => pc = "update" /\ pc' = "loop"]_vars

\* a fit call of a later round returned after moving the adjacency matrix
C2_Witness ==
    /\ pc = "update"
    /\ round = 1
    /\ adj # Zeros(TrainNodes)
    /\ lambda_A = 1 /\ fitLambda = 1

\* the number of steps a run that has not raised has taken
Progress ==
    round * (2 * Epochs + 3) +
        CASE pc = "loop"         -> 0
          [] pc = "fit_forward"  -> 1 + 2 * epoch
          [] pc = "fit_backward" -> 2 + 2 * epoch
          [] pc = "update"       -> 2 * Epochs + 2
          [] pc = "done"         -> 1
          [] OTHER               -> 0

\* C3: when no fit call raises, the run terminates after exactly Rounds rounds
\* (each one fit call of Epochs epochs and one update step) whatever h(A) is,
\* and the model is saved exactly once, after the last update step.  Termination
\* is stated as progress: a run that has not ended can always take a step (at
\* "loop" one of FitCall and Save by their guards, the guard of Forward is
\* epoch < Epochs, that of Backward a nonempty AdjSteps), every step adds one
\* to Progress, and Progress is bounded.
C3_Terminates ==
    /\ [](saved <= 1)
    /\ [](saved = 1 =>
            pc = "done" /\ round = Rounds /\ fitCalls = Rounds /\ updates = Rounds)
    /\ [](pc = "done" => saved = 1 /\ ~raised)
    /\ [](pc = "update" => epoch = Epochs)
    /\ [](pc \in {"loop", "fit_forward", "fit_backward", "update", "done", "crashed"})
    /\ [](pc = "loop" => round \in 0..Rounds)
    /\ [](pc = "fit_forward" => epoch < Epochs \/ ENABLED FitReturn)
    /\ [](pc = "fit_backward" => epoch < Epochs /\ adj \in AdjSteps(adj))
    /\ [](pc = "update" => ENABLED Update)
    /\ [](Progress <= Rounds * (2 * Epochs + 3) + 1)
    /\ [][saved' # saved =>
            /\ saved = 0 /\ saved' = 1
            /\ round = Rounds /\ fitCalls = Rounds /\ updates = Rounds]_vars
    /\ [][pc' # "crashed" => Progress' = Progress + 1]_vars

\* the run ended and saved with a cycle left in the adjacency matrix
C3_Witness == pc = "done" /\ saved = 1 /\ ~raised /\ HasCycle(adj)

\* C4: if a fit call raises, the run ends there: no retry, no later fit call,
\* no update step of that round (lambda_A and penalty_A keep the values they
\* had when the fit started), and the model file is never written.
C4_RaiseEndsRun ==
    /\ [](raised =>
            /\ pc = "crashed"
            /\ saved = 0
            /\ lambda_A = fitLambda /\ penalty_A = fitPenalty
            /\ updates = fitCalls - 1)
    /\ [][~raised]_vars

\* the fit call of the fourth round raised in its third epoch
C4_Witness == raised /\ pc = "crashed" /\ round = 3 /\ epoch = 2 /\ fitCalls = 4

\* C7: at every forward pass the loss registered by ConstraintLossLayer has
\* n_nodes entries, each lambda_A*h(A) + 0.5*penalty_A*h(A)^2 with the current
\* lambda_A and penalty_A (0.5*h(A)^2 in round 0, and 0 whenever h(A) = 0), and
\* the layer returns its second input unchanged.
C7_ConstraintLoss ==
    pc = "fit_backward" =>
        LET h        == DAG_constraint(adj, self_alpha)
            expected == Rat(2 * lambda_A * h[1] * h[2] + penalty_A * h[1] * h[1],
                            2 * h[2] * h[2])
        IN  /\ inputs[1] = adj
            /\ DOMAIN losses = 1..TrainNodes
            /\ \A k \in 1..TrainNodes :
                  /\ losses[k] = expected
                  /\ round = 0 => losses[k] = Rat(h[1] * h[1], 2 * h[2] * h[2])
                  /\ h = RZero => losses[k] = RZero
            /\ output = inputs[2]

\* a forward pass of a later round on a matrix with a cycle
C7_Witness ==
    /\ pc = "fit_backward"
    /\ round = 2
    /\ HasCycle(adj)
    /\ losses[1][1] > 0
    /\ output = 1

\* C10: the adjacency matrix changes only in gradient steps of a fit call; the
\* update step targets the ConstraintLossLayer and writes only lambda_A and
\* penalty_A, leaving every other weight as the preceding fit left it.
C10_UpdateFrame ==
    /\ [](LayerNames[get_layer(layers, -1)] = "constraint_loss_layer")
    /\ [][adj' # adj => pc = "fit_backward"]_vars
    /\ [][pc = "update" =>
            /\ \A l \in 1..Len(layers) :
                  LayerNames[l] # "constraint_loss_layer" => layers'[l] = layers[l]
            /\ adj' = adj
            /\ WeightsChange]_vars

\* an update step has run on a nonzero adjacency matrix
C10_Witness ==
    /\ pc = "loop"
    /\ round = 1
    /\ adj # Zeros(TrainNodes)
    /\ lambda_A = 1

\* the training state while a pure function is evaluated on its own
TrainIdle ==
    /\ pc = "loop"
    /\ round = 0
    /\ epoch = 0
    /\ layers = autoencoder(0, 0)
    /\ inputs = None
    /\ losses = None
    /\ output = None
    /\ saved = 0
    /\ fitCalls = 0
    /\ updates = 0
    /\ raised = FALSE
    /\ fitLambda = None
    /\ fitPenalty = None

(***************************************************************************)
(* DAG_constraint evaluated on its own                                     *)
(***************************************************************************)
\* the scale factors tried: 1/n (as the autoencoder passes) and 2
Alphas(n) == { Rat(1, n), RInt(2) }

InitDAG ==
    /\ TrainIdle
    /\ \E n \in 1..MaxN :
         \E A \in SparseMatrices(n, MaxEdges), a \in Alphas(n) :
            call = [fn |-> "DAG_constraint", stage |-> "args",
                    A |-> A, alpha |-> a, h_A |-> None]

DAGCall ==
    /\ call.fn = "DAG_constraint"
    /\ call.stage = "args"
    /\ call' = [call EXCEPT !.stage = "returned",
                            !.h_A = DAG_constraint(call.A, call.alpha)]
    /\ UNCHANGED trainVars

NextDAG == DAGCall

SpecDAG == InitDAG /\ [][NextDAG]_vars

DAGReturned == call.fn = "DAG_constraint" /\ call.stage = "returned"

\* x^k by k-1 multiplications by x
RECURSIVE MatPow(_, _)
MatPow(x, k) == IF k <= 1 THEN x ELSE matmul(MatPow(x, k - 1), x)

\* trace((I + alpha*(A o A))^n) - n, n the dimension of A
NthPowerTrace(A, a) ==
    LET n  == Len(A)
        x0 == Scaled([i \in 1..n |-> [j \in 1..n |->
                         (IF i = j THEN a[2] ELSE 0) + a[1] * A[i][j] * A[i][j]]],
                     a[2])
    IN  RSub(trace(MatPow(x0, n)), RInt(n))

\* C5: DAG_constraint(A, alpha) returns trace((I + alpha*(A o A))^n) - n for
\* every square n x n matrix A and positive alpha.
C5_ReturnsNthPower ==
    DAGReturned => call.h_A = NthPowerTrace(call.A, call.alpha)

StrictlyUpper(A) == \A i, j \in 1..Len(A) : j <= i => A[i][j] = 0
StrictlyLower(A) == \A i, j \in 1..Len(A) : j >= i => A[i][j] = 0

\* C6: DAG_constraint(A, alpha) is zero exactly when the graph of the nonzero
\* entries of A (self-loops included) is acyclic and strictly positive
\* otherwise; zero for strictly triangular A, positive for a 2x2 A with both
\* off-diagonal entries nonzero.
C6_ZeroIffAcyclic ==
    DAGReturned =>
        /\ (call.h_A = RZero) <=> ~HasCycle(call.A)
        /\ HasCycle(call.A) => call.h_A[1] > 0
        /\ (StrictlyUpper(call.A) \/ StrictlyLower(call.A)) => call.h_A = RZero
        /\ (Len(call.A) = 2 /\ call.A[1][2] # 0 /\ call.A[2][1] # 0) => call.h_A[1] > 0

\* a 3-cycle without self-loops was measured, and a nonzero triangular matrix
C6_Witness ==
    /\ DAGReturned
    /\ Len(call.A) = 3
    /\ call.A[1][2] # 0 /\ call.A[2][3] # 0 /\ call.A[3][1] # 0
    /\ call.h_A[1] > 0

(***************************************************************************)
(* The structural transforms evaluated on their own                        *)
(***************************************************************************)
\* M without row r and column c
Minor(M, r, c) ==
    Tabulate([i \in 1..(Len(M) - 1) |-> Tabulate([j \in 1..(Len(M) - 1) |->
        M[IF i < r THEN i ELSE i + 1][IF j < c THEN j ELSE j + 1]], Len(M) - 1)],
        Len(M) - 1)

Sign(k) == IF k % 2 = 0 THEN 1 ELSE -1

\* determinant by expansion along the first row
RECURSIVE Det(_)
Det(M) ==
    IF Len(M) = 0 THEN 1
    ELSE IF Len(M) = 1 THEN M[1][1]
    ELSE SumTo([j \in 1..Len(M) |->
                  IF M[1][j] = 0 THEN 0
                  ELSE Sign(1 + j) * M[1][j] * Det(Minor(M, 1, j))], Len(M))

\* tf.linalg.inv on a matrix of integers: the exact inverse, the adjugate over
\* the determinant, or the error raised for a matrix that is not invertible
inv(M) ==
    LET d == Det(M)
        n == Len(M)
        s == IF d < 0 THEN -1 ELSE 1
    IN  IF d = 0 THEN "InvalidArgumentError"
        ELSE Scaled(Tabulate([i \in 1..n |-> Tabulate([j \in 1..n |->
                        s * Sign(i + j) * Det(Minor(M, j, i))], n)], n),
                    s * d)

\* ident - K.transpose(A)
I_minus_At(A) ==
    LET ident == eye(Len(A))
        At    == transpose(A)
    IN  Tabulate([i \in 1..Len(A) |-> Tabulate([j \in 1..Len(A) |->
            ident[i][j] - At[i][j]], Len(A))], Len(A))

\* TransMultA.call with the layer's weight A: returns outputs, self.A
TransMultA_call(A, x) ==
    LET I_A == Scaled(I_minus_At(A), 1)
    IN  << [l \in 1..Len(x) |-> matmul(I_A, x[l])], A >>

\* InvTransMultA.call with I_A = ident - A, the transpose left out
InvTransMultA_call_no_transpose(x) ==
    LET layers_ == SubSeq(x, 1, Len(x) - 1)
        A       == x[Len(x)]
        I_A     == I_minus_At(transpose(A))
    IN  IF Det(I_A) = 0 THEN "InvalidArgumentError"
        ELSE [l \in 1..Len(layers_) |-> matmul(inv(I_A), layers_[l])]

\* InvTransMultA.call
InvTransMultA_call(x) ==
    LET layers_ == SubSeq(x, 1, Len(x) - 1)
        A       == x[Len(x)]
        I_A     == I_minus_At(A)
        inv_I_A == inv(I_A)
    IN  IF Det(I_A) = 0 THEN "InvalidArgumentError"
        ELSE [l \in 1..Len(layers_) |-> matmul(inv_I_A, layers_[l])]

\* tensors of shape (n, 2): a unit vector beside the column 1, ..., n
Tensors(n) ==
    { Scaled([i \in 1..n |-> << IF i = k THEN 1 ELSE 0, i >>], 1) : k \in {1, n} }

InitTrans ==
    /\ TrainIdle
    /\ \E n \in 1..MaxN :
         \E A \in SparseMatrices(n, MaxEdges), T \in Tensors(n) :
            call = [fn |-> "TransMultA", stage |-> "args", A |-> A, x |-> <<T>>,
                    forward |-> None, inverse |-> None]

\* the encoder's TransMultA(n_nodes)(x)
TransMultACall ==
    /\ call.fn = "TransMultA"
    /\ call.stage = "args"
    /\ call' = [call EXCEPT !.stage = "forward",
                            !.forward = TransMultA_call(call.A, call.x)]
    /\ UNCHANGED trainVars

\* the decoder's InvTransMultA(n_nodes)([..., A]) on the transformed tensors
InvTransMultACall ==
    /\ call.fn = "TransMultA"
    /\ call.stage = "forward"
    /\ LET r == InvTransMultA_call(Append(call.forward[1], call.forward[2]))
       IN  call' = [call EXCEPT
                      !.stage = IF Det(I_minus_At(call.A)) = 0 THEN "raised" ELSE "inverse",
                      !.inverse = r]
    /\ UNCHANGED trainVars

NextTrans == TransMultACall \/ InvTransMultACall

SpecTrans == InitTrans /\ [][NextTrans]_vars

\* C9: for every A with (I - A^T) non-singular and every tensor T of shape
\* (n_nodes, d), InvTransMultA applied to the output of TransMultA with the
\* same A returns T; the inverse transform fails only for a singular (I - A^T).
C9_RoundTrip ==
    /\ (call.fn = "TransMultA" /\ call.stage = "inverse") =>
          /\ Len(call.inverse) = Len(call.x)
          /\ \A l \in 1..Len(call.x) : Values(call.inverse[l]) = Values(call.x[l])
    /\ (call.fn = "TransMultA" /\ call.stage = "raised") => Det(I_minus_At(call.A)) = 0

\* a round trip through an asymmetric A that changes the tensor on the way
C9_Witness ==
    /\ call.fn = "TransMultA"
    /\ call.stage = "inverse"
    /\ Len(call.A) = 3
    /\ call.A # transpose(call.A)
    /\ Values(call.forward[1][1]) # Values(call.x[1])
    /\ Values(call.inverse[1]) = Values(call.x[1])

(***************************************************************************)
(* The log-likelihoods evaluated on their own.  Every quantity in them is  *)
(* non-negative, so each is followed as one of: "zero", "pos" (positive    *)
(* and finite), "inf" (a positive number over zero) and "nan" (0/0).       *)
(***************************************************************************)
sAdd(a, b) ==
    IF a = "nan" \/ b = "nan" THEN "nan"
    ELSE IF a = "inf" \/ b = "inf" THEN "inf"
    ELSE IF a = "zero" /\ b = "zero" THEN "zero"
    ELSE "pos"

sMul(a, b) ==
    IF a = "nan" \/ b = "nan" THEN "nan"
    ELSE IF {a, b} = {"zero", "inf"} THEN "nan"
    ELSE IF a = "zero" \/ b = "zero" THEN "zero"
    ELSE IF a = "inf" \/ b = "inf" THEN "inf"
    ELSE "pos"

sDiv(a, b) ==
    IF a = "nan" \/ b = "nan" THEN "nan"
    ELSE IF a = "zero" /\ b = "zero" THEN "nan"
    ELSE IF a = "inf" /\ b = "inf" THEN "nan"
    ELSE IF b = "zero" \/ a = "inf" THEN "inf"
    ELSE IF a = "zero" \/ b = "inf" THEN "zero"
    ELSE "pos"

\* tf.pow(b, e) for a finite e >= 0: pow(x, 0) is 1 for every x
sPow(b, e) ==
    IF e = "zero" THEN "pos"
    ELSE IF b = "nan" THEN "nan"
    ELSE b

\* pi in [0, 1] is one of "zero", "mid", "one"
PiSign(p) == IF p = "zero" THEN "zero" ELSE "pos"
\* 1.0 - pi
OneMinus(p) == IF p = "one" THEN "zero" ELSE "pos"

\* def NB_loglikelihood(y, params, eps): the arguments of its logarithms and
\* the operands of its divisions, which are the same on both branches
NB_loglikelihood(y, params, eps, tf2) ==
    LET mu == params[1]
        r  == params[2]
        d1 == << sAdd(mu, eps), sAdd(sAdd(r, mu), eps) >>
        d2 == << sAdd(r, eps), sAdd(sAdd(r, mu), eps) >>
    IN  [logs |-> << sDiv(d1[1], d1[2]), sDiv(d2[1], d2[2]) >>,
         divs |-> << d1, d2 >>]

\* def ZINB_loglikelihood(y, params, eps)
ZINB_loglikelihood(y, params, eps, tf2) ==
    LET mu == params[1]
        r  == params[2]
        p  == params[3]
        nb == NB_loglikelihood(y, SubSeq(params, 1, Len(params) - 1), eps, tf2)
        d  == IF tf2 THEN << r, sAdd(sAdd(r, mu), eps) >>
                     ELSE << r, sAdd(r, mu) >>
        pw == sPow(sDiv(d[1], d[2]), r)
        case_zero    == IF tf2 THEN sAdd(sAdd(eps, PiSign(p)), sMul(OneMinus(p), pw))
                               ELSE sAdd(PiSign(p), sMul(OneMinus(p), pw))
        case_nonzero == IF tf2 THEN sAdd(OneMinus(p), eps)
                               ELSE OneMinus(p)
    IN  [logs |-> nb.logs \o << case_zero, case_nonzero >>,
         divs |-> Append(nb.divs, d)]

Signs == {"zero", "pos"}

InitLik ==
    /\ TrainIdle
    /\ \/ \E f \in BOOLEAN, y \in Signs, mu \in Signs, r \in Signs :
            call = [fn |-> "NB_loglikelihood", stage |-> "args", tf2_flag |-> f,
                    y |-> y, params |-> <<mu, r>>, logs |-> << >>, divs |-> << >>]
       \/ \E f \in BOOLEAN, y \in Signs, mu \in Signs, r \in Signs,
              p \in {"zero", "mid", "one"} :
            call = [fn |-> "ZINB_loglikelihood", stage |-> "args", tf2_flag |-> f,
                    y |-> y, params |-> <<mu, r, p>>, logs |-> << >>, divs |-> << >>]

NBCall ==
    /\ call.fn = "NB_loglikelihood"
    /\ call.stage = "args"
    /\ LET res == NB_loglikelihood(call.y, call.params, "pos", call.tf2_flag)
       IN  call' = [call EXCEPT !.stage = "returned", !.logs = res.logs, !.divs = res.divs]
    /\ UNCHANGED trainVars

ZINBCall ==
    /\ call.fn = "ZINB_loglikelihood"
    /\ call.stage = "args"
    /\ LET res == ZINB_loglikelihood(call.y, call.params, "pos", call.tf2_flag)
       IN  call' = [call EXCEPT !.stage = "returned", !.logs = res.logs, !.divs = res.divs]
    /\ UNCHANGED trainVars

NextLik == NBCall \/ ZINBCall

SpecLik == InitLik /\ [][NextLik]_vars

\* C8: on both branches (tf2_flag true and false) and for all y, mu, r >= 0
\* and pi in [0, 1], no logarithm of NB_loglikelihood or ZINB_loglikelihood
\* receives a zero argument and no division is 0/0.
C8_EpsilonFloors ==
    (call.fn \in {"NB_loglikelihood", "ZINB_loglikelihood"} /\ call.stage = "returned") =>
        /\ \A k \in 1..Len(call.logs) : call.logs[k] \notin {"zero", "nan"}
        /\ \A k \in 1..Len(call.divs) : call.divs[k] # <<"zero", "zero">>

====
